---- MODULE Spec2Model ----
(***************************************************************************)
(* Model of the MCP SQL Query API (src/mcp/server.py): the SQL sanitizer   *)
(* clean_sql, the safety classifier validate_sql, and the POST /ask        *)
(* handler with its two upstream collaborators (the Ollama backend and     *)
(* the PostgreSQL database).                                               *)
(*                                                                         *)
(* Texts are sequences of one-character strings, so that the regular       *)
(* expressions and the str methods of the source are computed character    *)
(* by character.                                                           *)
(***************************************************************************)
EXTENDS Integers, Sequences, FiniteSets, TLC

(***************************************************************************)
(* Bounds of the model.                                                    *)
(***************************************************************************)
\* Number of vocabulary pieces concatenated into an input of clean_sql.
MaxCleanPieces == 4
\* Number of vocabulary pieces that follow the head of an input of validate_sql.
MaxValidatePieces == 3
\* Number of vocabulary pieces concatenated into a backend completion of /ask.
MaxRawPieces == 2
\* Largest number of rows the database returns for a statement.
MaxRows == 2
\* the longest model list the backend answers /api/tags with
MaxModels == 2
\* the most progress lines a pull answer streams
MaxPullLines == 2

(***************************************************************************)
(* Characters and the str methods the source uses.                         *)
(***************************************************************************)
UpperCase ==
  <<"A", "B", "C", "D", "E", "F", "G", "H", "I", "J", "K", "L", "M",
    "N", "O", "P", "Q", "R", "S", "T", "U", "V", "W", "X", "Y", "Z">>

LowerCase ==
  <<"a", "b", "c", "d", "e", "f", "g", "h", "i", "j", "k", "l", "m",
    "n", "o", "p", "q", "r", "s", "t", "u", "v", "w", "x", "y", "z">>

Digits == {"0", "1", "2", "3", "4", "5", "6", "7", "8", "9"}

Range(f) == {f[i] : i \in DOMAIN f}

\* The lower-case letter of each upper-case letter.
LowerOf == [c \in Range(UpperCase) |-> LowerCase[CHOOSE i \in DOMAIN UpperCase : UpperCase[i] = c]]

\* str.lower() of one character.
LowerChar(c) == IF c \in DOMAIN LowerOf THEN LowerOf[c] ELSE c

\* str.lower()
Lower(s) == [i \in DOMAIN s |-> LowerChar(s[i])]

\* The characters the regular expression class \w matches.
WordChars == Range(UpperCase) \cup Range(LowerCase) \cup Digits \cup {"_"}

IsWordChar(c) == c \in WordChars

\* The characters \s and str.strip() treat as whitespace.
IsSpace(c) == c \in {" ", "\t", "\n", "\r"}

\* str.startswith(prefix)
StartsWith(s, prefix) ==
  /\ Len(prefix) <= Len(s)
  /\ \A i \in 1..Len(prefix) : s[i] = prefix[i]

\* s[n:]
Drop(s, n) == SubSeq(s, n + 1, Len(s))

\* str.lstrip()
RECURSIVE LStrip(_)
LStrip(s) ==
  IF s # <<>> /\ IsSpace(s[1]) THEN LStrip(Tail(s)) ELSE s

\* str.rstrip()
RECURSIVE RStrip(_)
RStrip(s) ==
  IF s # <<>> /\ IsSpace(s[Len(s)]) THEN RStrip(SubSeq(s, 1, Len(s) - 1)) ELSE s

\* str.strip()
Strip(s) == RStrip(LStrip(s))

\* The removal of one trailing ';' only.
RStripSemicolons_One(s) ==
  IF s # <<>> /\ s[Len(s)] = ";" THEN SubSeq(s, 1, Len(s) - 1) ELSE s

\* str.rstrip(';')
RECURSIVE RStripSemicolons(_)
RStripSemicolons(s) ==
  IF s # <<>> /\ s[Len(s)] = ";"
    THEN RStripSemicolons(SubSeq(s, 1, Len(s) - 1))
    ELSE s

(***************************************************************************)
(* clean_sql                                                               *)
(***************************************************************************)
\* The grave accent (U+0060), which a string literal of this language cannot hold.
Backtick == "U+0060"

Fence == <<Backtick, Backtick, Backtick>>

FenceSql == Fence \o <<"s", "q", "l">>

\* re.sub(marker + r'\n?', '', s): every leftmost, non-overlapping occurrence
\* of marker is removed together with one newline that directly follows it.
RECURSIVE SubMarker(_, _)
SubMarker(s, marker) ==
  IF s = <<>> THEN <<>>
  ELSE IF StartsWith(s, marker)
    THEN LET rest == Drop(s, Len(marker))
         IN  IF rest # <<>> /\ rest[1] = "\n"
               THEN SubMarker(Tail(rest), marker)
               ELSE SubMarker(rest, marker)
    ELSE <<s[1]>> \o SubMarker(Tail(s), marker)

\* re.sub(r'^(sql|SQL):\s*', '', s): the label is removed at the start of the
\* text only, with the whitespace run that follows it.
SubPrefix(s) ==
  IF StartsWith(s, <<"s", "q", "l", ":">>) \/ StartsWith(s, <<"S", "Q", "L", ":">>)
    THEN LStrip(Drop(s, 4))
    ELSE s

\* clean_sql without its second substitution: only fences tagged sql are removed.
clean_sql_OnlySqlFence(sql) ==
  RStripSemicolons(Strip(SubPrefix(SubMarker(sql, FenceSql))))

clean_sql(sql) ==
  LET s1 == SubMarker(sql, FenceSql)
      s2 == SubMarker(s1, Fence)
      s3 == SubPrefix(s2)
      s4 == Strip(s3)
  IN  RStripSemicolons(s4)

(***************************************************************************)
(* validate_sql                                                            *)
(***************************************************************************)
dangerous_keywords ==
  << <<"d", "r", "o", "p">>,
     <<"d", "e", "l", "e", "t", "e">>,
     <<"t", "r", "u", "n", "c", "a", "t", "e">>,
     <<"a", "l", "t", "e", "r">>,
     <<"c", "r", "e", "a", "t", "e">>,
     <<"i", "n", "s", "e", "r", "t">>,
     <<"u", "p", "d", "a", "t", "e">>,
     <<"g", "r", "a", "n", "t">>,
     <<"r", "e", "v", "o", "k", "e">>,
     <<"e", "x", "e", "c">>,
     <<"e", "x", "e", "c", "u", "t", "e">>,
     <<"p", "r", "o", "c", "e", "d", "u", "r", "e">>,
     <<"f", "u", "n", "c", "t", "i", "o", "n">> >>

Select == <<"s", "e", "l", "e", "c", "t">>

\* \b at the gap before position i of s (i in 1..Len(s)+1): exactly one of the
\* two neighbouring positions holds a word character.
WordBoundary(s, i) ==
  LET before == i > 1 /\ IsWordChar(s[i - 1])
      after  == i <= Len(s) /\ IsWordChar(s[i])
  IN  before # after

\* The search without the two \b: the keyword anywhere, inside identifiers too.
SearchKeyword_Substring(s, keyword) ==
  \E i \in 1..(Len(s) - Len(keyword) + 1) : SubSeq(s, i, i + Len(keyword) - 1) = keyword

\* re.search(rf'\b{keyword}\b', s) finds a match.
SearchKeyword(s, keyword) ==
  \E i \in 1..(Len(s) - Len(keyword) + 1) :
    /\ WordBoundary(s, i)
    /\ SubSeq(s, i, i + Len(keyword) - 1) = keyword
    /\ WordBoundary(s, i + Len(keyword))

None == <<>>

MsgOnlySelect == <<"Only SELECT queries are allowed", <<>> >>

MsgForbidden(keyword) == <<"Query contains forbidden keyword: ", keyword>>

\* The for loop over dangerous_keywords from index k on: the first keyword
\* found ends the loop with a rejection.
RECURSIVE ScanKeywords(_, _)
ScanKeywords(sql_lower, k) ==
  IF k > Len(dangerous_keywords)
    THEN [is_valid |-> TRUE, error_msg |-> None]
    ELSE IF SearchKeyword(sql_lower, dangerous_keywords[k])
      THEN [is_valid |-> FALSE, error_msg |-> MsgForbidden(dangerous_keywords[k])]
      ELSE ScanKeywords(sql_lower, k + 1)

\* validate_sql without the lower(): the checks see the text in its own case.
validate_sql_CaseSensitive(sql) ==
  IF ~StartsWith(sql, Select)
    THEN [is_valid |-> FALSE, error_msg |-> MsgOnlySelect]
    ELSE ScanKeywords(sql, 1)

\* validate_sql with a loop that starts at the second keyword.
validate_sql_SkipsFirstKeyword(sql) ==
  IF ~StartsWith(Lower(sql), Select)
    THEN [is_valid |-> FALSE, error_msg |-> MsgOnlySelect]
    ELSE ScanKeywords(Lower(sql), 2)

validate_sql(sql) ==
  LET sql_lower == Lower(sql)
  IN  IF ~StartsWith(sql_lower, Select)
        THEN [is_valid |-> FALSE, error_msg |-> MsgOnlySelect]
        ELSE ScanKeywords(sql_lower, 1)

(***************************************************************************)
(* Bounded sets of texts: concatenations of vocabulary pieces.             *)
(***************************************************************************)
RECURSIVE Flatten(_)
Flatten(ss) == IF ss = <<>> THEN <<>> ELSE ss[1] \o Flatten(Tail(ss))

Texts(pieces, n) ==
  {Flatten(ss) : ss \in UNION {[1..k -> pieces] : k \in 0..n}}

\* Vocabulary of the inputs of clean_sql: fence markers, single backticks,
\* language tags and labels, whitespace, terminators and ordinary text.
CleanPieces ==
  { Fence, FenceSql \o <<"\n">>, <<Backtick>>, <<"s", "q", "l">>, <<"S", "Q", "L">>,
    <<":">>, <<" ">>, <<"\n">>, <<";">>, <<"a">> }

CleanInputs == Texts(CleanPieces, MaxCleanPieces)

\* Vocabulary of the inputs of validate_sql: an optional select head in several
\* letter cases, then keywords, identifier fragments and punctuation.
ValidateHeads ==
  { <<>>, <<"s", "e", "l", "e", "c", "t">>, <<"S", "e", "L", "E", "c", "T", " ">> }

ValidatePieces ==
  { <<"d", "e", "l", "e", "t", "e">>, <<"D", "R", "O", "P">>,
    <<"c", "r", "e", "a", "t", "e">>, <<"E", "x", "e", "c">>, <<"u", "t", "e">>,
    <<"d">>, <<"_">>, <<" ">>, <<"(">>, <<"1">> }

ValidateInputs ==
  {h \o t : h \in ValidateHeads, t \in Texts(ValidatePieces, MaxValidatePieces)}

(***************************************************************************)
(* Configuration of the service and inputs of POST /ask.                   *)
(***************************************************************************)
MAX_RETRIES == 3

\* Field(..., min_length=1, max_length=500)
MinQuestionLength == 1

MaxQuestionLength == 500

LongText(n) == [i \in 1..n |-> "x"]

ListAllUsers == <<"l", "i", "s", "t", " ", "a", "l", "l", " ", "u", "s", "e", "r", "s">>

\* The question fields a client posts: empty, whitespace only, ordinary, padded
\* with whitespace, and at and beyond the length limit of the request model.
Questions ==
  { <<>>, <<" ">>, <<" ", "\n">>, ListAllUsers,
    <<" ">> \o ListAllUsers \o <<"\n">>,
    LongText(MaxQuestionLength), LongText(MaxQuestionLength + 1) }

SelectUsers ==
  <<"S", "E", "L", "E", "C", "T", " ", "*", " ", "F", "R", "O", "M", " ",
    "u", "s", "e", "r", "s">>

DeleteUsers ==
  <<"D", "E", "L", "E", "T", "E", " ", "F", "R", "O", "M", " ", "u", "s", "e", "r", "s">>

SelectCreatedAt ==
  <<"s", "e", "l", "e", "c", "t", " ", "c", "r", "e", "a", "t", "e", "d", "_", "a", "t",
    " ", "f", "r", "o", "m", " ", "u", "s", "e", "r", "s">>

DropTable ==
  <<";", " ", "D", "R", "O", "P", " ", "T", "A", "B", "L", "E", " ", "u", "s", "e", "r", "s">>

\* The completion of a model that answers in a fenced block.
FencedSelectUsers == FenceSql \o <<"\n">> \o SelectUsers \o <<"\n">> \o Fence

\* Vocabulary of the completions the backend returns.
RawPieces ==
  { FencedSelectUsers, SelectUsers, DeleteUsers, SelectCreatedAt, DropTable,
    <<";">>, <<" ">> }

RawCompletions == Texts(RawPieces, MaxRawPieces)

\* A row as the RealDictCursor returns it, and dict(row).
RealDictRow(items) == [type |-> "RealDictRow", items |-> items]

Dict(row) == row.items

RowValues ==
  { RealDictRow(<< <<"id", 1>>, <<"name", "ann">> >>),
    RealDictRow(<< <<"id", 2>>, <<"name", "bob">> >>) }

\* What cur.fetchall() can return: every sequence of at most MaxRows rows.
ResultSets == UNION {[1..n -> RowValues] : n \in 0..MaxRows}

(***************************************************************************)
(* Exceptions: classes, the except clauses that catch them, and the        *)
(* response FastAPI makes of an HTTPException that leaves the handler.     *)
(***************************************************************************)
ParentClass ==
  [ ReadTimeout |-> "Timeout", ConnectTimeout |-> "Timeout",
    Timeout |-> "RequestException", ConnectionError |-> "RequestException",
    HTTPError |-> "RequestException", JSONDecodeError |-> "RequestException",
    RequestException |-> "Exception",
    OperationalError |-> "psycopg2.Error", ProgrammingError |-> "psycopg2.Error",
    ValueError |-> "Exception", TypeError |-> "Exception",
    RuntimeError |-> "Exception", HTTPException |-> "Exception" ]
  @@ ("psycopg2.Error" :> "Exception")

\* isinstance(e, base), which an except clause tests.
RECURSIVE IsInstance(_, _)
IsInstance(class, base) ==
  \/ class = base
  \/ /\ class \in DOMAIN ParentClass
     /\ IsInstance(ParentClass[class], base)

\* An exception a library raises, with its message.
Raised(class, message) ==
  [class |-> class, status_code |-> 0, detail |-> <<message>>, headers |-> None]

HTTPException(status_code, detail, headers) ==
  [class |-> "HTTPException", status_code |-> status_code, detail |-> detail,
   headers |-> headers]

\* str(e)
Str(e) ==
  IF e.class = "HTTPException"
    THEN <<ToString(e.status_code), ": ">> \o e.detail
    ELSE e.detail

NoBody == <<>>

\* The response of a request whose handler raised the HTTPException e.
ErrorResponse(e) ==
  [status |-> e.status_code, detail |-> e.detail, headers |-> e.headers, body |-> NoBody]

\* The response FastAPI gives a body that fails the QuestionRequest model.
ValidationErrorResponse ==
  [status |-> 422, detail |-> <<"validation error: question">>, headers |-> None,
   body |-> NoBody]

NoResponse == [status |-> 0, detail |-> None, headers |-> None, body |-> NoBody]

\* The rejection raised without its headers argument.
GeneratedSqlHeader_Missing(sql) == None

GeneratedSqlHeader(sql) == <<"X-Generated-SQL", sql>>

\* QuestionRequest accepts the field.
QuestionRequest(q) == MinQuestionLength <= Len(q) /\ Len(q) <= MaxQuestionLength

\* The except clauses with RequestException tested before its subclass Timeout.
GenerationExcept_BaseClassFirst(e) ==
  IF IsInstance(e.class, "RequestException")
    THEN HTTPException(503, <<"Ollama service error: ">> \o Str(e), None)
  ELSE IF IsInstance(e.class, "Timeout")
    THEN HTTPException(503,
           <<"Ollama request timed out. The model may still be loading.">>, None)
  ELSE HTTPException(500, <<"Error generating SQL: ">> \o Str(e), None)

\* One catch-all clause in place of the three: every failure of the generation
\* block is reported as a service error.
GenerationExcept_CatchAll(e) ==
  HTTPException(503, <<"Ollama service error: ">> \o Str(e), None)

\* The except clauses of the generation block of ask_question.
GenerationExcept(e) ==
  IF IsInstance(e.class, "Timeout")
    THEN HTTPException(503,
           <<"Ollama request timed out. The model may still be loading.">>, None)
  ELSE IF IsInstance(e.class, "RequestException")
    THEN HTTPException(503, <<"Ollama service error: ">> \o Str(e), None)
  ELSE HTTPException(500, <<"Error generating SQL: ">> \o Str(e), None)

\* One clause in place of the two: every failure of the execution block is
\* reported as a failed statement.
ExecutionExcept_CatchAll(e, sql) ==
  HTTPException(400, <<"SQL execution failed: ">> \o Str(e), GeneratedSqlHeader(sql))

\* The except clauses of the execution block of ask_question.
ExecutionExcept(e, sql) ==
  IF IsInstance(e.class, "psycopg2.Error")
    THEN HTTPException(400, <<"SQL execution failed: ">> \o Str(e),
                       GeneratedSqlHeader(sql))
  ELSE HTTPException(500, <<"Query execution error: ">> \o Str(e),
                     GeneratedSqlHeader(sql))

\* What the backend does with one generate request: requests.post raises, the
\* answer has an error status, the body is no JSON (the class raised then depends
\* on the version of requests), the JSON lacks the field or holds no text, or
\* it holds a completion.
BackendOutcomes ==
  {[kind |-> k, raw |-> <<>>] :
     k \in {"ReadTimeout", "ConnectTimeout", "ConnectionError", "HTTPError",
            "JSONDecodeError", "ValueError", "NoResponseField", "ResponseNotStr"}}
  \cup {[kind |-> "Completion", raw |-> r] : r \in RawCompletions}

\* What the database does with a statement: a failure at one of the calls of the
\* execution block, or a result set.
DatabaseOutcomes ==
  {[kind |-> "raise", at |-> a, class |-> c, rows |-> <<>>] :
     a \in {"cursor", "execute", "fetchall"},
     c \in {"ProgrammingError", "OperationalError", "RuntimeError"}}
  \cup {[kind |-> "rows", at |-> "", class |-> "", rows |-> r] : r \in ResultSets}

(***************************************************************************)
(* The backend's model list: GET /api/tags and POST /api/pull.             *)
(***************************************************************************)
MODEL_NAME == "qwen2.5-coder:1.5b"

\* The number of iterations of the polling loop of wait_for_ollama.
MaxProbes == 60

\* Names the backend lists, each as the pieces it is written with.
ModelNames ==
  {<<MODEL_NAME>>, <<"library/", MODEL_NAME>>, <<"llama3:8b">>}

\* The body of an answer: text that is not JSON, an object whose models field is
\* null, or an object with a list of models.
NotJson == [valid |-> FALSE, is_list |-> FALSE, models |-> <<>>]

ModelsNull == [valid |-> TRUE, is_list |-> FALSE, models |-> <<>>]

ModelList(names) == [valid |-> TRUE, is_list |-> TRUE, models |-> names]

TagsBodies ==
  {NotJson, ModelsNull}
  \cup {ModelList(l) : l \in UNION {[1..n -> ModelNames] : n \in 0..MaxModels}}

\* What requests.get does with the probe: it raises, or it returns an answer.
TagsOutcomes ==
  {[kind |-> "raise", class |-> c, status |-> 0, body |-> NotJson] :
     c \in {"ConnectionError", "ReadTimeout"}}
  \cup {[kind |-> "answer", class |-> "", status |-> st, body |-> NotJson] :
          st \in {404, 500}}
  \cup {[kind |-> "answer", class |-> "", status |-> 200, body |-> b] :
          b \in TagsBodies}

NoProbe == [kind |-> "none", class |-> "", status |-> 0, body |-> NotJson]

\* The exception that res.json().get("models", []) and the iteration over the
\* models raise for a body, "" when they raise none.
ModelsRaise(body) ==
  IF ~body.valid THEN "JSONDecodeError"
  ELSE IF ~body.is_list THEN "TypeError"
  ELSE ""

\* any(MODEL_NAME in m.get("name", "") for m in models)
model_exists(models) ==
  \E k \in DOMAIN models : \E j \in DOMAIN models[k] : models[k][j] = MODEL_NAME

\* What the pull request does: requests.post raises, the stream raises after
\* some lines, or the stream ends and the answer has a status.
PullOutcomes ==
  {[kind |-> "raise", class |-> c, status |-> 0, lines |-> n] :
     c \in {"ConnectionError", "ReadTimeout"}, n \in 0..MaxPullLines}
  \cup {[kind |-> "answer", class |-> "", status |-> st, lines |-> n] :
          st \in {200, 500}, n \in 0..MaxPullLines}

NoPull == [kind |-> "none", class |-> "", status |-> 0, lines |-> 0]

(***************************************************************************)
(* State.                                                                  *)
(***************************************************************************)
VARIABLES
  \* clean_sql applied to a text, and to its own output
  cs_pc, cs_in, cs_out, cs_out2,
  \* validate_sql applied to a text
  vs_pc, vs_in, vs_out,
  \* one POST /ask request: the position in ask_question and its locals
  pc, request, question, raw_sql, sql, is_valid, error_msg, attempt, data,
  \* the connection of the request: "none", "open" or "closed"
  conn,
  \* the response the caller receives
  response,
  \* what the request did to its collaborators: the outcome of the generate
  \* call, the calls made, and the texts passed to cur.execute
  backend, generate_calls, validate_calls, connect_calls, connect_failures,
  sleeps, executed,
  \* what the database did with the statement of the request
  database,
  \* one GET /health request: the position in health and its locals
  h_pc, ollama_status, db_status, model_info, h_attempt, h_conn,
  \* what the backend and the database did to the probes of the request
  h_backend, h_database,
  \* the response the caller of GET /health receives
  h_response,
  \* startup: the position in startup_event and wait_for_ollama, the loop index
  \* i and the value wait_for_ollama returned
  w_pc, w_i, w_result,
  \* the reachability probes and pull requests sent, the outcome of the last of
  \* each, and whether time.sleep(2) ran since the last probe
  probes, pulls, w_probe, w_pull, w_waited

csVars == <<cs_pc, cs_in, cs_out, cs_out2>>

vsVars == <<vs_pc, vs_in, vs_out>>

askLocals == <<request, question, raw_sql, sql, is_valid, error_msg, attempt, data>>

askCalls ==
  <<backend, generate_calls, validate_calls, connect_calls, connect_failures,
    sleeps, executed, database>>

askVars == <<pc, askLocals, conn, response, askCalls>>

pureVars == <<csVars, vsVars>>

healthVars ==
  <<h_pc, ollama_status, db_status, model_info, h_attempt, h_conn, h_backend,
    h_database, h_response>>

startVars == <<w_pc, w_i, w_result, probes, pulls, w_probe, w_pull, w_waited>>

otherVars == <<healthVars, startVars>>

vars == <<pureVars, askVars, otherVars>>

NoOutcome == [kind |-> "none", at |-> "", class |-> "", rows |-> <<>>]

NoResult == [is_valid |-> FALSE, error_msg |-> None]

CleanIdle == cs_pc = "idle" /\ cs_in = <<>> /\ cs_out = <<>> /\ cs_out2 = <<>>

ValidateIdle == vs_pc = "idle" /\ vs_in = <<>> /\ vs_out = NoResult

AskIdle ==
  /\ pc = "idle"
  /\ request = <<>>
  /\ question = <<>>
  /\ raw_sql = <<>>
  /\ sql = <<>>
  /\ is_valid = FALSE
  /\ error_msg = None
  /\ attempt = 0
  /\ data = <<>>
  /\ conn = "none"
  /\ response = NoResponse
  /\ backend = "none"
  /\ generate_calls = 0
  /\ validate_calls = 0
  /\ connect_calls = 0
  /\ connect_failures = 0
  /\ sleeps = 0
  /\ executed = <<>>
  /\ database = NoOutcome

HealthIdle ==
  /\ h_pc = "idle"
  /\ ollama_status = ""
  /\ db_status = ""
  /\ model_info = None
  /\ h_attempt = 0
  /\ h_conn = "none"
  /\ h_backend = NoProbe
  /\ h_database = NoOutcome
  /\ h_response = NoResponse

StartupIdle ==
  /\ w_pc = "idle"
  /\ w_i = 0
  /\ w_result = "unset"
  /\ probes = 0
  /\ pulls = 0
  /\ w_probe = NoProbe
  /\ w_pull = NoPull
  /\ w_waited = FALSE

(***************************************************************************)
(* clean_sql as an operation: called on an input, then on its own output.  *)
(***************************************************************************)
InitClean ==
  /\ cs_pc = "input"
  /\ cs_in \in CleanInputs
  /\ cs_out = <<>>
  /\ cs_out2 = <<>>
  /\ ValidateIdle
  /\ AskIdle
  /\ HealthIdle
  /\ StartupIdle

CallCleanSql ==
  /\ cs_pc = "input"
  /\ cs_out' = clean_sql(cs_in)
  /\ cs_pc' = "cleaned"
  /\ UNCHANGED <<cs_in, cs_out2, vsVars, askVars, otherVars>>

CallCleanSqlAgain ==
  /\ cs_pc = "cleaned"
  /\ cs_out2' = clean_sql(cs_out)
  /\ cs_pc' = "recleaned"
  /\ UNCHANGED <<cs_in, cs_out, vsVars, askVars, otherVars>>

NextClean == CallCleanSql \/ CallCleanSqlAgain

SpecClean == InitClean /\ [][NextClean]_vars

(***************************************************************************)
(* validate_sql as an operation.                                           *)
(***************************************************************************)
InitValidate ==
  /\ vs_pc = "input"
  /\ vs_in \in ValidateInputs
  /\ vs_out = NoResult
  /\ CleanIdle
  /\ AskIdle
  /\ HealthIdle
  /\ StartupIdle

CallValidateSql ==
  /\ vs_pc = "input"
  /\ vs_out' = validate_sql(vs_in)
  /\ vs_pc' = "validated"
  /\ UNCHANGED <<vs_in, csVars, askVars, otherVars>>

NextValidate == CallValidateSql

SpecValidate == InitValidate /\ [][NextValidate]_vars

(***************************************************************************)
(* POST /ask: ask_question, one action per step of the handler.            *)
(***************************************************************************)
Init ==
  /\ AskIdle
  /\ CleanIdle
  /\ ValidateIdle
  /\ HealthIdle
  /\ StartupIdle

\* The handler ends by raising the HTTPException e.
RaiseHTTP(e) ==
  /\ response' = ErrorResponse(e)
  /\ pc' = "done"

\* The request arrives: the body is validated against QuestionRequest, then the
\* handler trims the question and refuses an empty one.
ReceiveRequest ==
  /\ pc = "idle"
  /\ \E req \in Questions :
       /\ request' = req
       /\ IF ~QuestionRequest(req)
            THEN /\ response' = ValidationErrorResponse
                 /\ pc' = "done"
                 /\ UNCHANGED question
            ELSE /\ question' = Strip(req)
                 /\ IF Strip(req) = <<>>
                      THEN RaiseHTTP(HTTPException(400, <<"Question cannot be empty">>, None))
                      ELSE pc' = "generating" /\ UNCHANGED response
  /\ UNCHANGED <<raw_sql, sql, is_valid, error_msg, attempt, data, conn, askCalls,
                 pureVars, otherVars>>

\* The generation block with a silent second try: after a first failed call
\* the backend is called once more before the failure is reported.
GenerateSql_RetriesOnce ==
  /\ pc = "generating"
  /\ \E o \in BackendOutcomes :
       /\ backend' = o.kind
       /\ generate_calls' = generate_calls + 1
       /\ IF o.kind = "Completion"
            THEN /\ raw_sql' = o.raw
                 /\ sql' = clean_sql(o.raw)
                 /\ pc' = "validating"
                 /\ UNCHANGED response
            ELSE /\ IF generate_calls = 0
                      THEN UNCHANGED <<pc, response>>
                      ELSE RaiseHTTP(GenerationExcept(Raised(o.kind, "backend failure")))
                 /\ UNCHANGED <<raw_sql, sql>>
  /\ UNCHANGED <<request, question, is_valid, error_msg, attempt, data, conn,
                 validate_calls, connect_calls, connect_failures, sleeps, executed,
                 database, pureVars, otherVars>>

\* The generation block: one call of the backend's generate endpoint, the
\* reading of its answer, and clean_sql on the completion.
GenerateSql ==
  /\ pc = "generating"
  /\ \E o \in BackendOutcomes :
       /\ backend' = o.kind
       /\ generate_calls' = generate_calls + 1
       /\ IF o.kind = "Completion"
            THEN /\ raw_sql' = o.raw
                 /\ sql' = clean_sql(o.raw)
                 /\ pc' = "validating"
                 /\ UNCHANGED response
            ELSE /\ RaiseHTTP(GenerationExcept(
                      IF o.kind = "NoResponseField"
                        THEN HTTPException(503,
                               <<"Unexpected Ollama response format: ">>, None)
                      ELSE IF o.kind = "ResponseNotStr"
                        THEN Raised("TypeError", "expected string or bytes-like object")
                      ELSE Raised(o.kind, "backend failure")))
                 /\ UNCHANGED <<raw_sql, sql>>
  /\ UNCHANGED <<request, question, is_valid, error_msg, attempt, data, conn,
                 validate_calls, connect_calls, connect_failures, sleeps, executed,
                 database, pureVars, otherVars>>

\* The validation block without its raise: the result of validate_sql is
\* computed and the handler goes on to the database whatever it is.
ValidateSql_Unchecked ==
  /\ pc = "validating"
  /\ validate_calls' = validate_calls + 1
  /\ is_valid' = validate_sql(sql).is_valid
  /\ error_msg' = validate_sql(sql).error_msg
  /\ pc' = "connecting"
  /\ UNCHANGED <<request, question, raw_sql, sql, attempt, data, conn, response, backend,
                 generate_calls, connect_calls, connect_failures, sleeps, executed,
                 database, pureVars, otherVars>>

\* The validation block.
ValidateSql ==
  /\ pc = "validating"
  /\ validate_calls' = validate_calls + 1
  /\ LET result == validate_sql(sql)
     IN  /\ is_valid' = result.is_valid
         /\ error_msg' = result.error_msg
         /\ IF ~result.is_valid
              THEN RaiseHTTP(HTTPException(400, result.error_msg, GeneratedSqlHeader(sql)))
              ELSE pc' = "connecting" /\ UNCHANGED response
  /\ UNCHANGED <<request, question, raw_sql, sql, attempt, data, conn, backend,
                 generate_calls, connect_calls, connect_failures, sleeps, executed,
                 database, pureVars, otherVars>>

\* get_db_connection with the retry test off by one: a failed attempt is
\* followed by another while attempt < MAX_RETRIES.
get_db_connection_OffByOne ==
  /\ pc = "connecting"
  /\ connect_calls' = connect_calls + 1
  /\ \E connected \in BOOLEAN :
       IF connected
         THEN /\ conn' = "open"
              /\ pc' = "executing"
              /\ UNCHANGED <<attempt, connect_failures, sleeps, response>>
         ELSE /\ connect_failures' = connect_failures + 1
              /\ UNCHANGED conn
              /\ IF attempt < MAX_RETRIES
                   THEN /\ sleeps' = sleeps + 1
                        /\ attempt' = attempt + 1
                        /\ UNCHANGED <<pc, response>>
                   ELSE /\ RaiseHTTP(ExecutionExcept(
                             HTTPException(503,
                               <<"Database unavailable: ", "connection refused">>, None),
                             sql))
                        /\ UNCHANGED <<attempt, sleeps>>
  /\ UNCHANGED <<request, question, raw_sql, sql, is_valid, error_msg, data, backend,
                 generate_calls, validate_calls, executed, database, pureVars, otherVars>>

\* One iteration of the loop of get_db_connection, called from the execution
\* block: a connect attempt that succeeds or raises OperationalError.
get_db_connection ==
  /\ pc = "connecting"
  /\ connect_calls' = connect_calls + 1
  /\ \E connected \in BOOLEAN :
       IF connected
         THEN /\ conn' = "open"
              /\ pc' = "executing"
              /\ UNCHANGED <<attempt, connect_failures, sleeps, response>>
         ELSE /\ connect_failures' = connect_failures + 1
              /\ UNCHANGED conn
              /\ IF attempt < MAX_RETRIES - 1
                   THEN /\ sleeps' = sleeps + 1
                        /\ attempt' = attempt + 1
                        /\ UNCHANGED <<pc, response>>
                   ELSE /\ RaiseHTTP(ExecutionExcept(
                             HTTPException(503,
                               <<"Database unavailable: ", "connection refused">>, None),
                             sql))
                        /\ UNCHANGED <<attempt, sleeps>>
  /\ UNCHANGED <<request, question, raw_sql, sql, is_valid, error_msg, data, backend,
                 generate_calls, validate_calls, executed, database, pureVars, otherVars>>

\* The execution block answering with the question as posted, not as trimmed.
ExecuteSql_UntrimmedQuestion ==
  /\ pc = "executing"
  /\ \E o \in DatabaseOutcomes :
       /\ database' = o
       /\ executed' = IF o.kind = "raise" /\ o.at = "cursor"
                        THEN executed
                        ELSE Append(executed, sql)
       /\ IF o.kind = "rows"
            THEN /\ data' = [i \in DOMAIN o.rows |-> Dict(o.rows[i])]
                 /\ conn' = "closed"
                 /\ response' =
                      [status |-> 200, detail |-> None, headers |-> None,
                       body |-> [question |-> request, sql |-> sql,
                                 data |-> [i \in DOMAIN o.rows |-> Dict(o.rows[i])],
                                 row_count |-> Len(o.rows)]]
                 /\ pc' = "done"
            ELSE /\ RaiseHTTP(ExecutionExcept(Raised(o.class, "database failure"), sql))
                 /\ UNCHANGED <<data, conn>>
  /\ UNCHANGED <<request, question, raw_sql, sql, is_valid, error_msg, attempt, backend,
                 generate_calls, validate_calls, connect_calls, connect_failures, sleeps,
                 pureVars, otherVars>>

\* The rest of the execution block: cursor, execute, fetchall, close, and the
\* success response; a failure leaves through the except clauses.
ExecuteSql ==
  /\ pc = "executing"
  /\ \E o \in DatabaseOutcomes :
       /\ database' = o
       /\ executed' = IF o.kind = "raise" /\ o.at = "cursor"
                        THEN executed
                        ELSE Append(executed, sql)
       /\ IF o.kind = "rows"
            THEN /\ data' = [i \in DOMAIN o.rows |-> Dict(o.rows[i])]
                 /\ conn' = "closed"
                 /\ response' =
                      [status |-> 200, detail |-> None, headers |-> None,
                       body |-> [question |-> question, sql |-> sql,
                                 data |-> [i \in DOMAIN o.rows |-> Dict(o.rows[i])],
                                 row_count |-> Len(o.rows)]]
                 /\ pc' = "done"
            ELSE /\ RaiseHTTP(ExecutionExcept(Raised(o.class, "database failure"), sql))
                 /\ UNCHANGED <<data, conn>>
  /\ UNCHANGED <<request, question, raw_sql, sql, is_valid, error_msg, attempt, backend,
                 generate_calls, validate_calls, connect_calls, connect_failures, sleeps,
                 pureVars, otherVars>>

ask_question ==
  \/ ReceiveRequest
  \/ GenerateSql
  \/ ValidateSql
  \/ get_db_connection
  \/ ExecuteSql

Next == ask_question

Spec == Init /\ [][Next]_vars

(***************************************************************************)
(* GET /health: health, one action per step of the handler.                *)
(***************************************************************************)
\* The except Exception clauses of health and wait_for_ollama catch e.
CaughtAsException(class) == IsInstance(class, "Exception")

\* The response of a request whose handler let an exception other than an
\* HTTPException escape.
InternalServerError ==
  [status |-> 500, detail |-> <<"Internal Server Error">>, headers |-> None,
   body |-> NoBody]

\* The request arrives and the locals are set.
HealthBegin ==
  /\ h_pc = "idle"
  /\ ollama_status' = "error"
  /\ db_status' = "error"
  /\ model_info' = None
  /\ h_pc' = "ollama"
  /\ UNCHANGED <<h_attempt, h_conn, h_backend, h_database, h_response, startVars,
                 askVars, pureVars>>

\* The backend check: the probe, and on a 200 answer the status set before the
\* model list is read.
HealthCheckOllama ==
  /\ h_pc = "ollama"
  /\ \E o \in TagsOutcomes :
       /\ h_backend' = o
       /\ IF o.kind = "raise"
            THEN /\ IF CaughtAsException(o.class)
                      THEN h_pc' = "connecting" /\ UNCHANGED h_response
                      ELSE h_pc' = "done" /\ h_response' = InternalServerError
                 /\ UNCHANGED <<ollama_status, model_info>>
            ELSE IF o.status # 200
              THEN /\ h_pc' = "connecting"
                   /\ UNCHANGED <<ollama_status, model_info, h_response>>
              ELSE /\ ollama_status' = "ok"
                   /\ IF ModelsRaise(o.body) = ""
                        THEN /\ model_info' = IF model_exists(o.body.models)
                                                 THEN <<MODEL_NAME>>
                                                 ELSE <<"not_loaded">>
                             /\ h_pc' = "connecting"
                             /\ UNCHANGED h_response
                        ELSE /\ UNCHANGED model_info
                             /\ IF CaughtAsException(ModelsRaise(o.body))
                                  THEN h_pc' = "connecting" /\ UNCHANGED h_response
                                  ELSE h_pc' = "done" /\ h_response' = InternalServerError
  /\ UNCHANGED <<db_status, h_attempt, h_conn, h_database, startVars, askVars, pureVars>>

\* The database check leaves its try block with the exception e.
HealthDatabaseRaised(e) ==
  /\ h_database' = [kind |-> "raise", at |-> e.at, class |-> e.class, rows |-> <<>>]
  /\ IF CaughtAsException(e.class)
       THEN h_pc' = "respond" /\ UNCHANGED h_response
       ELSE h_pc' = "done" /\ h_response' = InternalServerError

\* One iteration of the loop of get_db_connection, called from the database
\* check: the connect attempt succeeds, raises OperationalError, or raises an
\* exception the loop does not catch.
HealthConnect ==
  /\ h_pc = "connecting"
  /\ \E o \in {"connected", "OperationalError", "ProgrammingError"} :
       IF o = "connected"
         THEN /\ h_conn' = "open"
              /\ h_pc' = "selecting"
              /\ UNCHANGED <<h_attempt, h_database, h_response>>
         ELSE IF o = "OperationalError" /\ h_attempt < MAX_RETRIES - 1
           THEN /\ h_attempt' = h_attempt + 1
                /\ UNCHANGED <<h_pc, h_conn, h_database, h_response>>
           ELSE /\ HealthDatabaseRaised(
                     [at |-> "connect",
                      class |-> IF o = "OperationalError" THEN "HTTPException" ELSE o])
                /\ UNCHANGED <<h_attempt, h_conn>>
  /\ UNCHANGED <<ollama_status, db_status, model_info, h_backend, startVars, askVars,
                 pureVars>>

\* SELECT 1 on the connection, which is closed when nothing raised.
HealthSelectOne ==
  /\ h_pc = "selecting"
  /\ \E o \in {[at |-> a, class |-> c] :
                  a \in {"cursor", "execute"},
                  c \in {"OperationalError", "RuntimeError"}}
                \cup {[at |-> "", class |-> ""]} :
       IF o.class = ""
         THEN /\ h_conn' = "closed"
              /\ db_status' = "ok"
              /\ h_database' = [kind |-> "rows", at |-> "", class |-> "", rows |-> <<>>]
              /\ h_pc' = "respond"
              /\ UNCHANGED h_response
         ELSE /\ HealthDatabaseRaised(o)
              /\ UNCHANGED <<h_conn, db_status>>
  /\ UNCHANGED <<ollama_status, model_info, h_attempt, h_backend, startVars, askVars,
                 pureVars>>

\* The overall status is computed and the snapshot returned.
HealthRespond ==
  /\ h_pc = "respond"
  /\ h_response' =
       [status |-> 200, detail |-> None, headers |-> None,
        body |-> [status |-> IF ollama_status = "ok" /\ db_status = "ok"
                               THEN "healthy" ELSE "unhealthy",
                  ollama |-> ollama_status,
                  database |-> db_status,
                  model |-> model_info]]
  /\ h_pc' = "done"
  /\ UNCHANGED <<ollama_status, db_status, model_info, h_attempt, h_conn, h_backend,
                 h_database, startVars, askVars, pureVars>>

health ==
  \/ HealthBegin
  \/ HealthCheckOllama
  \/ HealthConnect
  \/ HealthSelectOne
  \/ HealthRespond

NextHealth == health

SpecHealth == Init /\ [][NextHealth]_vars

(***************************************************************************)
(* Startup: startup_event and wait_for_ollama, one action per step.        *)
(***************************************************************************)
\* startup_event calls wait_for_ollama, which enters its loop.
StartupBegin ==
  /\ w_pc = "idle"
  /\ w_pc' = "probing"
  /\ w_i' = 0
  /\ UNCHANGED <<w_result, probes, pulls, w_probe, w_pull, w_waited, healthVars,
                 askVars, pureVars>>

\* One reachability probe of the loop: an exception leads to the except clause,
\* a status other than 200 to the next iteration, a 200 answer whose model list
\* is read to the pull or to return True.
ProbeOllama ==
  /\ w_pc = "probing"
  /\ w_i < MaxProbes
  /\ probes' = probes + 1
  /\ w_waited' = FALSE
  /\ \E o \in TagsOutcomes :
       /\ w_probe' = o
       /\ IF o.kind = "raise"
            THEN /\ w_pc' = IF CaughtAsException(o.class) THEN "waiting" ELSE "crashed"
                 /\ UNCHANGED <<w_i, w_result>>
            ELSE IF o.status # 200
              THEN /\ w_i' = w_i + 1
                   /\ UNCHANGED <<w_pc, w_result>>
              ELSE IF ModelsRaise(o.body) # ""
                THEN /\ w_pc' = IF CaughtAsException(ModelsRaise(o.body))
                                  THEN "waiting" ELSE "crashed"
                     /\ UNCHANGED <<w_i, w_result>>
                ELSE IF model_exists(o.body.models)
                  THEN /\ w_result' = "True"
                       /\ w_pc' = "returned"
                       /\ UNCHANGED w_i
                  ELSE /\ w_pc' = "pulling"
                       /\ UNCHANGED <<w_i, w_result>>
  /\ UNCHANGED <<pulls, w_pull, healthVars, askVars, pureVars>>

\* The except clause of the loop: the wait, then the next iteration.
WaitForOllama ==
  /\ w_pc = "waiting"
  /\ w_waited' = TRUE
  /\ w_i' = w_i + 1
  /\ w_pc' = "probing"
  /\ UNCHANGED <<w_result, probes, pulls, w_probe, w_pull, healthVars, askVars,
                 pureVars>>

\* The pull with its except clause missing: an exception of the pull reaches
\* the except clause of the loop.
PullModel_Unguarded ==
  /\ w_pc = "pulling"
  /\ pulls' = pulls + 1
  /\ \E o \in PullOutcomes :
       /\ w_pull' = o
       /\ IF o.kind = "raise"
            THEN w_pc' = "waiting" /\ UNCHANGED w_result
            ELSE w_result' = "True" /\ w_pc' = "returned"
  /\ UNCHANGED <<w_i, probes, w_probe, w_waited, healthVars, askVars, pureVars>>

\* The pull of the model, in its own try block: whatever the request and its
\* stream do, wait_for_ollama goes on to return True.
PullModel ==
  /\ w_pc = "pulling"
  /\ pulls' = pulls + 1
  /\ \E o \in PullOutcomes :
       /\ w_pull' = o
       /\ IF o.kind = "raise" /\ ~CaughtAsException(o.class)
            THEN w_pc' = "crashed" /\ UNCHANGED w_result
            ELSE w_result' = "True" /\ w_pc' = "returned"
  /\ UNCHANGED <<w_i, probes, w_probe, w_waited, healthVars, askVars, pureVars>>

\* The loop ran out of iterations.
ReturnFalse ==
  /\ w_pc = "probing"
  /\ w_i = MaxProbes
  /\ w_result' = "False"
  /\ w_pc' = "returned"
  /\ UNCHANGED <<w_i, probes, pulls, w_probe, w_pull, w_waited, healthVars, askVars,
                 pureVars>>

\* startup_event logs the outcome and ends: the service starts.
StartupReady ==
  /\ w_pc = "returned"
  /\ w_pc' = "ready"
  /\ UNCHANGED <<w_i, w_result, probes, pulls, w_probe, w_pull, w_waited, healthVars,
                 askVars, pureVars>>

wait_for_ollama ==
  \/ ProbeOllama
  \/ WaitForOllama
  \/ PullModel
  \/ ReturnFalse

startup_event ==
  \/ StartupBegin
  \/ wait_for_ollama
  \/ StartupReady

NextStartup == startup_event

\* startup_event runs in one task whose requests all end (timeout=5,
\* timeout=600): a step that can be taken is taken.
SpecStartup == Init /\ [][NextStartup]_vars /\ WF_vars(NextStartup)

(***************************************************************************)
(* Vocabulary of the properties, stated apart from the code above.         *)
(***************************************************************************)
\* sub occurs in s as a contiguous run of characters.
Contains(s, sub) ==
  \E i \in 1..(Len(s) - Len(sub) + 1) : SubSeq(s, i, i + Len(sub) - 1) = sub

\* The whole words of s: its maximal runs of letters, digits and underscores.
WholeWords(s) ==
  { SubSeq(s, r[1], r[2]) :
      r \in { p \in (1..Len(s)) \X (1..Len(s)) :
                /\ p[1] <= p[2]
                /\ \A k \in p[1]..p[2] : IsWordChar(s[k])
                /\ (p[1] = 1 \/ ~IsWordChar(s[p[1] - 1]))
                /\ (p[2] = Len(s) \/ ~IsWordChar(s[p[2] + 1])) } }

\* The forbidden keywords, in the order the specification lists them.
ForbiddenList ==
  << <<"d", "r", "o", "p">>, <<"d", "e", "l", "e", "t", "e">>,
     <<"t", "r", "u", "n", "c", "a", "t", "e">>, <<"a", "l", "t", "e", "r">>,
     <<"c", "r", "e", "a", "t", "e">>, <<"i", "n", "s", "e", "r", "t">>,
     <<"u", "p", "d", "a", "t", "e">>, <<"g", "r", "a", "n", "t">>,
     <<"r", "e", "v", "o", "k", "e">>, <<"e", "x", "e", "c">>,
     <<"e", "x", "e", "c", "u", "t", "e">>,
     <<"p", "r", "o", "c", "e", "d", "u", "r", "e">>,
     <<"f", "u", "n", "c", "t", "i", "o", "n">> >>

\* The forbidden keywords that occur in s as whole words, in any letter case.
ForbiddenWordsOf(s) == Range(ForbiddenList) \cap WholeWords(Lower(s))

BeginsWithSelect(s) == StartsWith(Lower(s), <<"s", "e", "l", "e", "c", "t">>)

\* The first keyword of the list that occurs in s as a whole word.
FirstForbiddenOf(s) ==
  ForbiddenList[CHOOSE k \in DOMAIN ForbiddenList :
                  /\ ForbiddenList[k] \in ForbiddenWordsOf(s)
                  /\ \A j \in 1..(k - 1) : ForbiddenList[j] \notin ForbiddenWordsOf(s)]

\* The rejection reason names the keyword.
NamesKeyword(msg, keyword) ==
  msg # None /\ msg[1] = "Query contains forbidden keyword: " /\ msg[2] = keyword

EndsWithSemicolon(s) == s # <<>> /\ s[Len(s)] = ";"

\* s holds a fenced block with a language tag: an opening fence directly
\* followed by a tag, and a closing fence after it.
HasTaggedFencedBlock(s) ==
  \E i \in 1..Len(s), j \in 1..Len(s) :
    /\ i + 3 <= Len(s)
    /\ SubSeq(s, i, i + 2) = <<Backtick, Backtick, Backtick>>
    /\ IsWordChar(s[i + 3])
    /\ j >= i + 4
    /\ j + 2 <= Len(s)
    /\ SubSeq(s, j, j + 2) = <<Backtick, Backtick, Backtick>>

ValidationFailed == pc = "done" /\ validate_calls = 1 /\ ~is_valid

TimeoutText == <<"Ollama request timed out. The model may still be loading.">>

(***************************************************************************)
(* Properties of POST /ask (specification Spec).                           *)
(***************************************************************************)
\* C1: every text passed to the cursor's execute during /ask is the text
\* validate_sql was called on and accepted; it is a read-only text (begins with
\* select, no forbidden whole word), and no rejected text is ever executed.
C1_OnlyValidatedExecuted ==
  \A i \in DOMAIN executed :
    /\ validate_calls = 1
    /\ is_valid
    /\ executed[i] = sql
    /\ BeginsWithSelect(executed[i])
    /\ ForbiddenWordsOf(executed[i]) = {}

\* A fenced completion was cleaned, accepted and executed.
C1_Witness ==
  /\ raw_sql = FencedSelectUsers
  /\ executed = <<SelectUsers>>

\* C5: when the sanitized completion fails validate_sql the request ends with
\* status 400, the rejection reason as detail and the rejected text on the
\* response, and nothing touched the database.
C5_RejectionIsReported ==
  ValidationFailed =>
    /\ response.status = 400
    /\ error_msg # None
    /\ response.detail = error_msg
    /\ response.headers = <<"X-Generated-SQL", sql>>
    /\ connect_calls = 0
    /\ conn = "none"
    /\ executed = <<>>

\* The completion DELETE FROM users was rejected.
C5_Witness ==
  /\ ValidationFailed
  /\ sql = DeleteUsers
  /\ response.status = 400

\* C6 (as stated): when every one of the MAX_RETRIES connect attempts of a
\* validated request fails, the caller receives 503, database unavailable.
C6_ConnectFailureIs503 ==
  (pc = "done" /\ validate_calls = 1 /\ is_valid /\ connect_failures = MAX_RETRIES) =>
    /\ response.status = 503
    /\ response.detail[1] = "Database unavailable: "

\* C7 (as stated): a question that is empty after trimming, the empty string
\* included, is answered 400 with no backend and no database call.
C7_EmptyQuestionIs400 ==
  (pc = "done" /\ Strip(request) = <<>>) =>
    /\ response.status = 400
    /\ generate_calls = 0
    /\ connect_calls = 0
    /\ executed = <<>>

\* C8: when the generate call times out the request ends with 503 and the
\* timeout diagnosis, the response carries no SQL text, and neither validation
\* nor a connection attempt nor an execution happened.
C8_TimeoutIs503 ==
  (pc = "done" /\ backend \in {"ReadTimeout", "ConnectTimeout"}) =>
    /\ response.status = 503
    /\ response.detail = TimeoutText
    /\ response.headers = None
    /\ response.body = NoBody
    /\ sql = <<>>
    /\ validate_calls = 0
    /\ connect_calls = 0
    /\ executed = <<>>

\* The backend did not answer within TIMEOUT and the request ended.
C8_Witness ==
  /\ pc = "done"
  /\ backend = "ReadTimeout"
  /\ generate_calls = 1
  /\ response.status = 503

(***************************************************************************)
(* Properties of validate_sql (specification SpecValidate).                *)
(***************************************************************************)
\* C2: every text validate_sql accepts begins, in lower case, with select and
\* holds none of the 13 forbidden keywords as a whole word; a text that does not
\* begin with select in any letter case is rejected.
C2_AcceptedIsReadOnly ==
  vs_pc = "validated" =>
    /\ vs_out.is_valid => BeginsWithSelect(vs_in) /\ ForbiddenWordsOf(vs_in) = {}
    /\ ~BeginsWithSelect(vs_in) => ~vs_out.is_valid

\* A text in mixed case that holds a keyword inside an identifier was accepted.
C2_Witness ==
  /\ vs_pc = "validated"
  /\ vs_out.is_valid
  /\ StartsWith(vs_in, <<"S", "e", "L", "E", "c", "T", " ">>)
  /\ Contains(vs_in, <<"E", "x", "e", "c", "_">>)

C4_IdentifiersAreAccepted ==
  (vs_pc = "validated" /\ BeginsWithSelect(vs_in) /\ ForbiddenWordsOf(vs_in) = {}) =>
    /\ vs_out.is_valid
    /\ vs_out.error_msg = None

\* A select over created_, which holds create inside an identifier, was accepted.
C4_Witness ==
  /\ vs_pc = "validated"
  /\ vs_out.is_valid
  /\ Contains(vs_in, <<" ", "c", "r", "e", "a", "t", "e", "d", "_">>)

(***************************************************************************)
(* Properties of clean_sql (specification SpecClean).                      *)
(***************************************************************************)
\* C9 (as stated): on a text without a fence marker, clean_sql applied twice
\* gives what clean_sql applied once gives.
C9_Idempotent ==
  (cs_pc = "recleaned" /\ ~Contains(cs_in, <<Backtick, Backtick, Backtick>>)) =>
    cs_out2 = cs_out

\* C10: for a completion that holds a fenced block with a language tag, the
\* output of clean_sql holds no fence marker and does not end with ';'.
C10_NoFenceNoTerminator ==
  (cs_pc # "input" /\ HasTaggedFencedBlock(cs_in)) =>
    /\ ~Contains(cs_out, <<Backtick, Backtick, Backtick>>)
    /\ ~EndsWithSemicolon(cs_out)

\* A block tagged sql whose statement ends with ';' was cleaned to the statement.
C10_Witness ==
  /\ cs_pc = "cleaned"
  /\ cs_in = <<Backtick, Backtick, Backtick, "s", "q", "l", "\n", "a", ";",
               Backtick, Backtick, Backtick>>
  /\ cs_out = <<"a">>

(***************************************************************************)
(* Further properties of POST /ask (specification Spec).                   *)
(***************************************************************************)
\* The generate call of the request failed.
GenerationFailed == backend \notin {"none", "Completion"}

\* C11 (as stated): no request finishes while the connection it acquired is
\* still open, whether the statement succeeded or failed.
C11_ConnectionClosedAtEnd ==
  pc = "done" => conn # "open"

\* C12: within one request the generate endpoint is called at most once, the
\* text is validated at most once and a statement is executed at most once; after
\* a failed generation or a rejection nothing more is asked of the backend or the
\* database; only the connect attempt is repeated, at most MAX_RETRIES times.
C12_NoSilentRetry ==
  /\ generate_calls <= 1
  /\ validate_calls <= 1
  /\ Len(executed) <= 1
  /\ connect_calls <= MAX_RETRIES
  /\ GenerationFailed =>
       /\ pc = "done"
       /\ generate_calls = 1
       /\ validate_calls = 0
       /\ connect_calls = 0
       /\ executed = <<>>
  /\ ValidationFailed =>
       /\ generate_calls = 1
       /\ connect_calls = 0
       /\ executed = <<>>

\* A request whose connect attempt was repeated executed its statement once.
C12_Witness ==
  /\ pc = "done"
  /\ generate_calls = 1
  /\ connect_calls = MAX_RETRIES
  /\ Len(executed) = 1

\* C13: when generation succeeds, the sanitized text is accepted, a connection
\* is acquired and the execution returns N rows, the answer is a success whose
\* sql is the executed text (the sanitized completion), whose question is the
\* trimmed question, whose data are the N rows in the order returned and whose
\* row_count is N.
C13_SuccessResponse ==
  (pc = "done" /\ database.kind = "rows") =>
    /\ response.status = 200
    /\ executed = <<response.body.sql>>
    /\ response.body.sql = clean_sql(raw_sql)
    /\ response.body.question = Strip(request)
    /\ Len(response.body.data) = Len(database.rows)
    /\ \A i \in 1..Len(database.rows) : response.body.data[i] = database.rows[i].items
    /\ response.body.row_count = Len(database.rows)

\* The padded question got the fenced completion executed and two rows back.
C13_Witness ==
  /\ pc = "done"
  /\ request # Strip(request)
  /\ raw_sql = FencedSelectUsers
  /\ Len(database.rows) = 2
  /\ database.rows[1] # database.rows[2]
  /\ response.status = 200
  /\ response.body.row_count = 2

\* The three failure modes of the generate call.
GenerationMode ==
  IF backend \in {"ReadTimeout", "ConnectTimeout"} THEN "timeout"
  ELSE IF backend \in {"ConnectionError", "HTTPError"} THEN "transport"
  ELSE IF backend = "NoResponseField" THEN "malformed"
  ELSE "other"

\* The response carries the diagnosis of the mode.
ShowsDiagnosis(mode, resp) ==
  /\ resp.detail # None
  /\ CASE mode = "timeout" -> resp.detail[1] = TimeoutText[1]
       [] mode = "transport" -> resp.detail[1] = "Ollama service error: "
       [] mode = "malformed" ->
            \E i \in DOMAIN resp.detail :
              resp.detail[i] = "Unexpected Ollama response format: "

\* C16: a timeout, a transport failure (a non-2xx status included) and a body
\* without the response field each end the request in an error that shows the
\* diagnosis of its own mode and of no other, and none of them lets the request
\* reach validation or the database.
C16_DistinctDiagnoses ==
  (pc = "done" /\ GenerationMode # "other") =>
    /\ response.status >= 400
    /\ response.body = NoBody
    /\ \A mode \in {"timeout", "transport", "malformed"} :
         ShowsDiagnosis(mode, response) <=> mode = GenerationMode
    /\ validate_calls = 0
    /\ connect_calls = 0
    /\ executed = <<>>

\* The backend answered with an error status and the request ended.
C16_Witness ==
  /\ pc = "done"
  /\ backend = "HTTPError"
  /\ response.status = 503
  /\ response.detail[1] = "Ollama service error: "

\* C17: get_db_connection makes at most MAX_RETRIES connect attempts, returns
\* the connection of the first attempt that succeeds without attempting again,
\* sleeps once after each failed attempt but the last, raises the 503 database
\* unavailable error after the last, and never returns without a connection.
C17_BoundedConnectRetries ==
  /\ connect_calls <= MAX_RETRIES
  /\ connect_failures <= connect_calls
  /\ sleeps = (IF connect_failures < MAX_RETRIES THEN connect_failures
                                                ELSE MAX_RETRIES - 1)
  /\ pc = "connecting" => connect_calls = connect_failures /\ conn = "none"
  /\ pc = "executing" => conn = "open"
  /\ conn # "none" => connect_calls = connect_failures + 1
  /\ connect_failures = MAX_RETRIES =>
       /\ pc = "done"
       /\ conn = "none"
       /\ executed = <<>>
       /\ SubSeq(response.detail, 2, 4) = <<"503", ": ", "Database unavailable: ">>

\* Two attempts failed, the third returned a connection.
C17_Witness ==
  /\ pc = "executing"
  /\ connect_calls = MAX_RETRIES
  /\ connect_failures = MAX_RETRIES - 1
  /\ sleeps = MAX_RETRIES - 1
  /\ conn = "open"

\* C20: when execute or fetchall raises a psycopg2.Error the answer is 400 with
\* the database's message and the attempted text, and the answer to a failed
\* connection is not of that kind.
C20_ExecutionFailureIs400 ==
  /\ (pc = "done" /\ database.kind = "raise"
        /\ database.class \in {"ProgrammingError", "OperationalError"}) =>
       /\ response.status = 400
       /\ response.detail = <<"SQL execution failed: ", "database failure">>
       /\ response.headers = <<"X-Generated-SQL", sql>>
       /\ connect_failures < MAX_RETRIES
  /\ (pc = "done" /\ connect_failures = MAX_RETRIES) =>
       <<response.status, response.detail[1]>> # <<400, "SQL execution failed: ">>

\* The database refused the statement at execute.
C20_Witness ==
  /\ pc = "done"
  /\ database.kind = "raise"
  /\ database.at = "execute"
  /\ database.class = "ProgrammingError"
  /\ executed = <<sql>>
  /\ response.status = 400

(***************************************************************************)
(* Further properties of clean_sql (specification SpecClean).              *)
(***************************************************************************)
\* s without the whitespace around it.
Trimmed(s) ==
  IF \A i \in DOMAIN s : IsSpace(s[i])
    THEN <<>>
    ELSE SubSeq(s,
           CHOOSE i \in DOMAIN s :
             ~IsSpace(s[i]) /\ \A j \in 1..(i - 1) : IsSpace(s[j]),
           CHOOSE i \in DOMAIN s :
             ~IsSpace(s[i]) /\ \A j \in (i + 1)..Len(s) : IsSpace(s[j]))

\* The number of consecutive ';' at the end of s.
TrailingSemicolons(s) ==
  CHOOSE k \in 0..Len(s) :
    /\ \A i \in (Len(s) - k + 1)..Len(s) : s[i] = ";"
    /\ (k = Len(s) \/ s[Len(s) - k] # ";")

\* s holds no fence marker and no leading label, so that clean_sql only trims
\* it and removes terminators.
PlainText(s) ==
  /\ ~Contains(s, <<Backtick, Backtick, Backtick>>)
  /\ ~StartsWith(s, <<"s", "q", "l", ":">>)
  /\ ~StartsWith(s, <<"S", "Q", "L", ":">>)

\* C19 (as stated): of the k >= 1 consecutive ';' that end the trimmed text
\* exactly one is removed; a text without a trailing ';' is only trimmed.
C19_RemovesOneTerminator ==
  (cs_pc # "input" /\ PlainText(cs_in)) =>
    cs_out = (IF TrailingSemicolons(Trimmed(cs_in)) >= 1
                THEN SubSeq(Trimmed(cs_in), 1, Len(Trimmed(cs_in)) - 1)
                ELSE Trimmed(cs_in))

\* C19 (amended): all the k >= 1 consecutive ';' that end the trimmed text are
\* removed; a text without a trailing ';' is only trimmed.
C19_RemovesAllTerminators ==
  (cs_pc # "input" /\ PlainText(cs_in)) =>
    cs_out = SubSeq(Trimmed(cs_in), 1,
                    Len(Trimmed(cs_in)) - TrailingSemicolons(Trimmed(cs_in)))

\* A padded text that ends with two terminators lost both.
C19_Witness ==
  /\ cs_pc = "cleaned"
  /\ cs_in = <<" ", "a", ";", ";">>
  /\ cs_out = <<"a">>
(***************************************************************************)
(* Properties of GET /health (specification SpecHealth).                   *)
(***************************************************************************)
\* The request of the probe was answered with status 200.
AnsweredOk(o) == o.kind = "answer" /\ o.status = 200

\* The model list of the answer was read without an exception.
ReadModelList(o) == AnsweredOk(o) /\ o.body.valid /\ o.body.is_list

\* An exception was raised in the probe of the backend: by the request, or by
\* the reading of its answer.
BackendProbeRaised(o) == o.kind = "raise" \/ (AnsweredOk(o) /\ ~ReadModelList(o))

\* C14: GET /health always answers with a snapshot; an exception in the backend
\* probe gives ollama 'error', an exception in the database probe (exhausted
\* retries included) gives database 'error', and the status is 'healthy' exactly
\* when both are 'ok'.
C14_HealthSnapshot ==
  h_pc = "done" =>
    /\ h_response.status = 200
    /\ h_response.body.ollama \in {"ok", "error"}
    /\ h_response.body.database \in {"ok", "error"}
    /\ BackendProbeRaised(h_backend) => h_response.body.ollama = "error"
    /\ h_database.kind = "raise" => h_response.body.database = "error"
    /\ h_response.body.status =
         (IF h_response.body.ollama = "ok" /\ h_response.body.database = "ok"
            THEN "healthy" ELSE "unhealthy")

(***************************************************************************)
(* Properties of startup (specification SpecStartup).                      *)
(***************************************************************************)
\* The answer lists the model.
Lists(o) == \E k \in DOMAIN o.body.models : MODEL_NAME \in Range(o.body.models[k])

StartupInv ==
  /\ probes <= MaxProbes
  /\ w_pc # "crashed"
  /\ pulls <= 1
  /\ pulls = 1 => (ReadModelList(w_probe) /\ ~Lists(w_probe))
  /\ ReadModelList(w_probe) =>
       /\ w_pc \in {"pulling", "returned", "ready"}
       /\ w_pc # "pulling" => w_result = "True"
       /\ pulls = (IF Lists(w_probe) \/ w_pc = "pulling" THEN 0 ELSE 1)
  /\ (AnsweredOk(w_probe) /\ ~ReadModelList(w_probe)) =>
       /\ w_result # "True"
       /\ pulls = 0
       /\ w_pc \in {"waiting", "probing", "returned", "ready"}
       /\ (w_pc = "probing" /\ w_probe.status = 200) => w_waited
  /\ w_result = "True" => ReadModelList(w_probe)
  /\ w_pull.kind # "none" => w_result = "True"
  /\ w_result = "False" =>
       /\ probes = MaxProbes
       /\ ~ReadModelList(w_probe)
       /\ pulls = 0
  /\ w_pc \in {"returned", "ready"} <=> w_result \in {"True", "False"}

C18_WaitSeparatesProbes ==
  [][(probes' = probes + 1 /\ probes >= 1) => w_waited]_vars
(***************************************************************************)
(* The HTTP error raised inside the generation block (specification Spec). *)
(***************************************************************************)
\* C21: when the backend answers with a JSON body that has no 'response' field,
\* the caller receives the error raised at that point: status 503 with the
\* 'Unexpected Ollama response format' detail.
C21_RaisedStatusReachesCaller ==
  (pc = "done" /\ backend = "NoResponseField") =>
    /\ response.status = 503
    /\ response.detail[1] = "Unexpected Ollama response format: "
====
